---- MODULE Spec2Model ----
(***************************************************************************)
(* Model of the AI request dispatcher of MovieMania                        *)
(* (server/src/services/geminiService.js): the client pool, the rotation   *)
(* cursor, client selection and the retry / backoff loop of                *)
(* makeRequestWithRetry, with several calls in flight at once.             *)
(*                                                                         *)
(* JavaScript runs one call until its next await, so one action is one     *)
(* synchronous stretch of makeRequestWithRetry: from the call (or from the *)
(* resumption of an await) up to the next awaited operation invocation,    *)
(* the next awaited sleep, or the return / throw that ends the call.       *)
(*                                                                         *)
(* Optional JavaScript values (undefined / a value) are sequences of       *)
(* length 0 or 1: <<>> is undefined, <<v>> is v.  Client indices are the   *)
(* 0-based indices of the source; TLA+ sequences are 1-based, so client i  *)
(* is clients[i + 1].                                                      *)
(***************************************************************************)
EXTENDS Integers, Sequences, FiniteSets, TLC

\* ------------------------------------------------------------------ bounds
MaxClients == 3        \* largest pool the model builds
MaxRetriesOpt == 3     \* largest maxRetries option a caller passes
MaxPreferred == 1      \* preferred indices range over -MaxPreferred-1 .. MaxPreferred

\* The call slots: how many makeRequestWithRetry calls can be in flight at once.
Calls == {"a", "b"}

\* ------------------------------------------------------- program constants
DefaultMaxRetries == 3
MaxDelay == 8000
BaseDelay == 1000
JitterRange == 500

\* ------------------------------------------------------------ JS helpers
\* JavaScript's % truncates toward zero: the result has the sign of a.
JsRem(a, b) == IF a >= 0 THEN a % b ELSE 0 - ((0 - a) % b)

Min(a, b) == IF a <= b THEN a ELSE b

RECURSIVE Pow2(_)
Pow2(n) == IF n <= 0 THEN 1 ELSE 2 * Pow2(n - 1)

Undefined == <<>>
Some(v) == <<v>>
IsDefined(o) == o # <<>>
Val(o) == o[1]

\* ------------------------------------------------- values a caller passes
\* A preferredKeyIndex value: undefined, null, a number (NaN included) or a
\* string (a sequence of one-character strings).
PrefUndefined == [t |-> "undefined", n |-> 0, s |-> <<>>]
PrefNull == [t |-> "null", n |-> 0, s |-> <<>>]
PrefNaN == [t |-> "NaN", n |-> 0, s |-> <<>>]
PrefNumber(k) == [t |-> "number", n |-> k, s |-> <<>>]
PrefString(str) == [t |-> "string", n |-> 0, s |-> str]

Digits == <<"0", "1", "2", "3", "4", "5", "6", "7", "8", "9">>
IsDigit(ch) == \E d \in 1..10 : Digits[d] = ch
DigitValue(ch) == (CHOOSE d \in 1..10 : Digits[d] = ch) - 1
IsSpace(ch) == ch \in {" ", "\t", "\n"}

RECURSIVE SkipSpaces(_)
SkipSpaces(str) ==
    IF str # <<>> /\ IsSpace(Head(str)) THEN SkipSpaces(Tail(str)) ELSE str

\* The value of the longest prefix of digits of str, continuing from acc;
\* seen says whether a digit has been read.  <<>> is NaN.
RECURSIVE ParseDigits(_, _, _)
ParseDigits(str, acc, seen) ==
    IF str # <<>> /\ IsDigit(Head(str))
    THEN ParseDigits(Tail(str), 10 * acc + DigitValue(Head(str)), TRUE)
    ELSE IF seen THEN Some(acc) ELSE Undefined

\* parseInt(str, 10): leading white space, an optional sign, then digits;
\* anything after the digits is ignored; no digit gives NaN (<<>>).
ParseInt10(str) ==
    LET t == SkipSpaces(str)
        neg == t # <<>> /\ Head(t) = "-"
        body == IF t # <<>> /\ Head(t) \in {"-", "+"} THEN Tail(t) ELSE t
        mag == ParseDigits(body, 0, FALSE)
    IN IF ~IsDefined(mag) THEN Undefined
       ELSE IF neg THEN Some(0 - Val(mag)) ELSE mag

\* ------------------------------------------------------------ the pool
\* hasAI with the emptiness test lost.
hasAI_Always(pool) == TRUE

\* get hasAI()
hasAI(pool) == Len(pool) > 0

\* normalizePreferredKeyIndex with parsed % count alone, without the
\* "+ count) % count" that makes a negative remainder an index.
normalizePreferredKeyIndex_Remainder(pool, value) ==
    IF value.t \in {"undefined", "null"} THEN Undefined
    ELSE LET parsed == IF value.t = "number" THEN Some(value.n)
                       ELSE IF value.t = "NaN" THEN Undefined
                       ELSE ParseInt10(value.s)
         IN IF ~IsDefined(parsed) THEN Undefined
            ELSE IF ~hasAI(pool) THEN Undefined
            ELSE Some(JsRem(Val(parsed), Len(pool)))

\* normalizePreferredKeyIndex(value): <<>> is null, <<i>> the index i.
normalizePreferredKeyIndex(pool, value) ==
    IF value.t \in {"undefined", "null"} THEN Undefined
    ELSE LET parsed == IF value.t = "number" THEN Some(value.n)
                       ELSE IF value.t = "NaN" THEN Undefined
                       ELSE ParseInt10(value.s)
         IN IF ~IsDefined(parsed) THEN Undefined
            ELSE IF ~hasAI(pool) THEN Undefined
            ELSE LET count == Len(pool)
                 IN Some(JsRem(JsRem(Val(parsed), count) + count, count))

\* The order without the wrap-around: (start + i) in place of (start + i) % count.
BuildOrder_NoWrap(start, count) == [i \in 1..count |-> start + (i - 1)]

\* The order with the loop counter begun at 1: it starts one past start.
BuildOrder_FromOne(start, count) == [i \in 1..count |-> JsRem(start + i, count)]

\* The order built by the loop of getClientOrder from a start index.
BuildOrder(start, count) == [i \in 1..count |-> JsRem(start + (i - 1), count)]

\* The cursor written without the + 1: start % count.
AdvanceCursor_Stuck(start, count) == JsRem(start, count)

\* The cursor written without the wrap-around: start + 1.
AdvanceCursor_NoWrap(start, count) == start + 1

\* this._nextClientIndex = (start + 1) % count
AdvanceCursor(start, count) == JsRem(start + 1, count)

\* getClientOrder without the test "if (preferred === null)": the cursor is
\* written for a pinned call too.
getClientOrder_AlwaysAdvance(pool, next, preferredKeyIndex) ==
    LET count == Len(pool)
    IN IF count = 0
       THEN [order |-> <<>>, start |-> 0, wrote |-> FALSE, next |-> next]
       ELSE LET preferred == normalizePreferredKeyIndex(pool, preferredKeyIndex)
                start == IF IsDefined(preferred) THEN Val(preferred)
                         ELSE JsRem(next, count)
            IN [order |-> BuildOrder(start, count),
                start |-> start,
                wrote |-> TRUE,
                next |-> AdvanceCursor(start, count)]

\* getClientOrder that starts an unpinned order at 0, not at the cursor.
getClientOrder_FromZero(pool, next, preferredKeyIndex) ==
    LET count == Len(pool)
    IN IF count = 0
       THEN [order |-> <<>>, start |-> 0, wrote |-> FALSE, next |-> next]
       ELSE LET preferred == normalizePreferredKeyIndex(pool, preferredKeyIndex)
                start == IF IsDefined(preferred) THEN Val(preferred) ELSE 0
            IN [order |-> BuildOrder(start, count),
                start |-> start,
                wrote |-> ~IsDefined(preferred),
                next |-> IF ~IsDefined(preferred)
                         THEN AdvanceCursor(start, count) ELSE next]

\* getClientOrder whose write of the cursor is lost: the cursor stays.
getClientOrder_LostWrite(pool, next, preferredKeyIndex) ==
    LET count == Len(pool)
    IN IF count = 0
       THEN [order |-> <<>>, start |-> 0, wrote |-> FALSE, next |-> next]
       ELSE LET preferred == normalizePreferredKeyIndex(pool, preferredKeyIndex)
                start == IF IsDefined(preferred) THEN Val(preferred)
                         ELSE JsRem(next, count)
            IN [order |-> BuildOrder(start, count),
                start |-> start,
                wrote |-> ~IsDefined(preferred),
                next |-> next]

\* getClientOrder(preferredKeyIndex) with the cursor at next: the order it
\* returns, the start it resolved, whether it wrote the cursor, and the
\* cursor it leaves.
getClientOrder(pool, next, preferredKeyIndex) ==
    LET count == Len(pool)
    IN IF count = 0
       THEN [order |-> <<>>, start |-> 0, wrote |-> FALSE, next |-> next]
       ELSE LET preferred == normalizePreferredKeyIndex(pool, preferredKeyIndex)
                start == IF IsDefined(preferred) THEN Val(preferred)
                         ELSE JsRem(next, count)
            IN [order |-> BuildOrder(start, count),
                start |-> start,
                wrote |-> ~IsDefined(preferred),
                next |-> IF ~IsDefined(preferred)
                         THEN AdvanceCursor(start, count) ELSE next]

\* -------------------------------------------------------------- errors
\* An error value: its status and response.status (optional numbers), its
\* message, its userMessage (optional), where it was made ("operation":
\* thrown by the caller's operation, "dispatcher": made by
\* makeRequestWithRetry) and, for an operation's error, the invocation that
\* threw it (its round and its position in the round's order), which tells
\* one thrown error from another.
NoInvocation == [round |-> 0 - 1, pos |-> 0]

Error(status, response, message, userMessage, origin, id) ==
    [status |-> status, response |-> response, message |-> message,
     userMessage |-> userMessage, origin |-> origin, id |-> id]

\* The errors an operation invocation throws: the remote API's errors (a
\* status and a message), errors that carry the status on .response only,
\* and errors without any status (a JSON parse error of cleanJson).
OperationErrors ==
    { Error(Some(429), Undefined, "Quota exceeded for quota metric", Undefined, "operation", NoInvocation),
      Error(Some(429), Undefined, "RESOURCE_EXHAUSTED", Undefined, "operation", NoInvocation),
      Error(Undefined, Some(429), "RATE_LIMIT_EXCEEDED", Undefined, "operation", NoInvocation),
      Error(Some(429), Undefined, "Too Many Requests", Undefined, "operation", NoInvocation),
      Error(Some(401), Undefined, "API key not valid", Undefined, "operation", NoInvocation),
      Error(Some(403), Undefined, "Permission denied", Undefined, "operation", NoInvocation),
      Error(Some(503), Undefined, "The model is overloaded", Undefined, "operation", NoInvocation),
      Error(Some(500), Undefined, "RESOURCE_EXHAUSTED", Undefined, "operation", NoInvocation),
      Error(Undefined, Some(504), "Gateway Timeout", Undefined, "operation", NoInvocation),
      Error(Some(400), Undefined, "Invalid argument", Undefined, "operation", NoInvocation),
      Error(Undefined, Undefined, "Failed to parse JSON from AI response", Undefined, "operation", NoInvocation) }

\* The messages that contain one of the three quota markers.
QuotaMarked == {"Quota exceeded for quota metric", "RESOURCE_EXHAUSTED", "RATE_LIMIT_EXCEEDED"}

\* const getStatus = (err) => err?.status ?? err?.response?.status
getStatus(err) == IF IsDefined(err.status) THEN err.status ELSE err.response

\* const getMessage = (err) => String(err?.message ?? '')
getMessage(err) == err.message

\* isQuotaExceeded429 reading err.status only, not err.response.status.
isQuotaExceeded429_OwnStatus(err) ==
    IF err.status # Some(429) THEN FALSE
    ELSE getMessage(err) \in QuotaMarked

isQuotaExceeded429(err) ==
    IF getStatus(err) # Some(429) THEN FALSE
    ELSE getMessage(err) \in QuotaMarked

\* isAuthError without 403.
isAuthError_401Only(status) == status = Some(401)

isAuthError(status) == status = Some(401) \/ status = Some(403)

isRateLimited(status) == status = Some(429)

\* The retryable statuses without 503.
RetryableStatuses_No503 == {408, 429, 500, 502, 504}

\* The retryable statuses with 400 among them.
RetryableStatuses_With400 == {400, 408, 429, 500, 502, 503, 504}

RetryableStatuses == {408, 429, 500, 502, 503, 504}

isRetryableStatus(status) ==
    IF ~IsDefined(status) \/ status = Some(0) THEN FALSE
    ELSE Val(status) \in RetryableStatuses

\* The error thrown when the pool is empty.
NotInitializedError ==
    Error(Some(503), Undefined, "AI service not initialized",
          Some("AI features are disabled on the server."), "dispatcher", NoInvocation)

\* The quota error without its userMessage.
QuotaExceededError_NoUserMessage ==
    Error(Some(429), Undefined, "Gemini quota exceeded", Undefined, "dispatcher", NoInvocation)

\* The error thrown in place of a quota error of the operation.
QuotaExceededError ==
    Error(Some(429), Undefined, "Gemini quota exceeded",
          Some("AI is temporarily unavailable (Gemini quota exceeded). Try again later or increase your Gemini quota."),
          "dispatcher", NoInvocation)

\* The delay with the exponent off by one: Math.pow(2, attempt + 1).
BackoffDelay_NextPower(attempt, jitter) ==
    Min(MaxDelay, Pow2(attempt + 1) * BaseDelay + jitter)

\* The delay without its cap.
BackoffDelay_NoCap(attempt, jitter) == Pow2(attempt) * BaseDelay + jitter

\* const delay = Math.min(8000, Math.pow(2, attempt) * 1000 + (Math.random() * 500)),
\* in whole milliseconds, jitter being the value of Math.random() * 500.
BackoffDelay(attempt, jitter) == Min(MaxDelay, Pow2(attempt) * BaseDelay + jitter)

\* The values of Math.random() * 500 the model draws: both ends of [0, 500)
\* and its middle.
Jitters == {0, JitterRange \div 2, JitterRange - 1}

\* --------------------------------------------------------------- state
VARIABLES
    clients,          \* this.clients: the pool, one credential per client
    nextClientIndex,  \* this._nextClientIndex: the rotation cursor
    call,             \* the makeRequestWithRetry calls, one per call slot
    starts,           \* history: the start indices of the latest order
                      \* resolutions that wrote the cursor, oldest first,
                      \* at most as many as the pool has clients
    probe,            \* the latest evaluation of one of the service's
                      \* functions on its own: the function, its inputs
                      \* and what it gave
    browser           \* one browser of the web client: the item
                      \* moviemania:aiKeyIndex of its localStorage, and
                      \* history: its latest requests, oldest first, at
                      \* most as many as the pool has clients

vars == <<clients, nextClientIndex, call, starts, probe, browser>>

\* No function has been evaluated on its own.
NoProbe == [fn |-> "none"]

\* A browser that has sent no request: the item is not in its localStorage.
NoBrowser == [storage |-> Undefined, sent |-> <<>>]

\* A call slot.  pc is where the call stands: "idle" (no call), "operation"
\* (awaiting operation(ai)), "sleep" (awaiting the backoff timer), "done"
\* (returned or thrown; outcome says which).  preferredKeyIndex, maxRetries,
\* attempt, order and lastError are the locals of the source; pos is the
\* position in order of the client being tried; delay is the delay of the
\* latest backoff sleep (0 before the first).  The other fields record what
\* the call has done: start is the start index its current round resolved,
\* tried the clients invoked in the current round, sleeps the backoff sleeps
\* begun, rounds the rounds begun, cursorWrites the times it wrote the
\* cursor.
IdleCall ==
    [pc |-> "idle", preferredKeyIndex |-> PrefUndefined, maxRetries |-> 0,
     attempt |-> 0, order |-> <<>>, pos |-> 0, lastError |-> Undefined,
     delay |-> 0, outcome |-> Undefined,
     start |-> 0, tried |-> <<>>, sleeps |-> 0, rounds |-> 0,
     cursorWrites |-> 0]

\* The pools the constructor builds: one client per configured credential.
Pool(n) == [i \in 1..n |-> i]

\* The preferredKeyIndex values callers pass.
PrefValues ==
    {PrefUndefined, PrefNull} \cup {PrefNumber(k) : k \in (0 - MaxPreferred)..MaxPreferred}

\* The maxRetries options callers pass: absent, or a number.
MaxRetriesValues == {Undefined} \cup {Some(r) : r \in (0 - 1)..MaxRetriesOpt}

\* { maxRetries = 3, preferredKeyIndex } = {}
ResolveMaxRetries(opt) == IF IsDefined(opt) THEN Val(opt) ELSE DefaultMaxRetries

\* The invocation the call is awaiting, or awaited last.
Invocation(c) == [round |-> c.attempt, pos |-> c.pos]

\* A success that is not returned while the order has a client left: the
\* inner loop goes on to it.
Return_LoopGoesOn(c, result) ==
    IF c.pos < Len(c.order)
    THEN [c EXCEPT !.pc = "operation", !.pos = c.pos + 1,
                   !.tried = Append(@, c.order[c.pos + 1])]
    ELSE [c EXCEPT !.pc = "done",
                   !.outcome = Some([kind |-> "return", result |-> Some(result),
                                     error |-> Undefined])]

\* return <value>: the call ends with the result of an invocation.
Return(c, result) ==
    [c EXCEPT !.pc = "done",
              !.outcome = Some([kind |-> "return", result |-> Some(result), error |-> Undefined])]

\* throw <value>: the call ends with thrown, an error or undefined (<<>>).
Throw(c, thrown) ==
    [c EXCEPT !.pc = "done",
              !.outcome = Some([kind |-> "throw", result |-> Undefined, error |-> thrown])]

\* operation(ai) on the client at position pos of the order, then the await.
Invoke(c, pos) ==
    [c EXCEPT !.pc = "operation", !.pos = pos,
              !.tried = Append(@, c.order[pos])]

\* await new Promise((resolve) => setTimeout(resolve, delay))
Sleep(c, jitter) ==
    [c EXCEPT !.pc = "sleep",
              !.delay = BackoffDelay(c.attempt, jitter),
              !.sleeps = @ + 1]

\* The outer loop from its test on, for a call whose attempt is set, up to
\* the next await or the final throw: the order is resolved (which may write
\* the cursor), the first client of the order is tried; an empty order goes
\* straight to the code after the inner loop.  Gives the call and the cursor.
RECURSIVE OuterLoop(_, _, _, _)
OuterLoop(pool, next, c, jitter) ==
    IF ~(c.attempt < c.maxRetries)
    THEN [call |-> Throw(c, c.lastError), next |-> next]
    ELSE LET r == getClientOrder(pool, next, c.preferredKeyIndex)
             d == [c EXCEPT !.order = r.order, !.start = r.start,
                            !.pos = 0, !.tried = <<>>,
                            !.rounds = @ + 1,
                            !.cursorWrites = @ + (IF r.wrote THEN 1 ELSE 0)]
         IN IF r.order # <<>>
            THEN [call |-> Invoke(d, 1), next |-> r.next]
            ELSE IF d.attempt < d.maxRetries - 1
            THEN [call |-> Sleep(d, jitter), next |-> r.next]
            ELSE OuterLoop(pool, r.next, [d EXCEPT !.attempt = @ + 1], jitter)

\* The code after the inner loop without its test: a sleep after the last
\* round too.
EndRound_AlwaysSleeps(pool, next, c, jitter) ==
    [call |-> Sleep(c, jitter), next |-> next]

\* After the inner loop: the backoff sleep when more rounds remain, else
\* attempt++ and the loop test.
EndRound(pool, next, c, jitter) ==
    IF c.attempt < c.maxRetries - 1
    THEN [call |-> Sleep(c, jitter), next |-> next]
    ELSE OuterLoop(pool, next, [c EXCEPT !.attempt = @ + 1], jitter)

\* continue that gives up the round one client early.
NextClient_SkipsLast(pool, next, c, jitter) ==
    IF c.pos < Len(c.order) - 1
    THEN [call |-> Invoke(c, c.pos + 1), next |-> next]
    ELSE EndRound(pool, next, c, jitter)

\* continue: the next client of the order, or the end of the inner loop.
NextClient(pool, next, c, jitter) ==
    IF c.pos < Len(c.order)
    THEN [call |-> Invoke(c, c.pos + 1), next |-> next]
    ELSE EndRound(pool, next, c, jitter)

\* The catch block whose transient branch goes on to the next client
\* (continue in place of break).
Catch_TransientContinues(pool, next, c0, error, jitter) ==
    LET c == [c0 EXCEPT !.lastError = Some(error)]
        status == getStatus(error)
    IN IF isQuotaExceeded429(error)
       THEN [call |-> Throw(c, Some(QuotaExceededError)), next |-> next]
       ELSE IF isAuthError(status) THEN NextClient(pool, next, c, jitter)
       ELSE IF isRateLimited(status) THEN NextClient(pool, next, c, jitter)
       ELSE IF isRetryableStatus(status) /\ c.attempt < c.maxRetries - 1
            THEN NextClient(pool, next, c, jitter)
       ELSE [call |-> Throw(c, Some(error)), next |-> next]

\* The catch block, for the error the awaited operation threw.
Catch(pool, next, c0, error, jitter) ==
    LET c == [c0 EXCEPT !.lastError = Some(error)]
        status == getStatus(error)
    IN IF isQuotaExceeded429(error)
       THEN [call |-> Throw(c, Some(QuotaExceededError)), next |-> next]
       ELSE IF isAuthError(status) THEN NextClient(pool, next, c, jitter)
       ELSE IF isRateLimited(status) THEN NextClient(pool, next, c, jitter)
       ELSE IF isRetryableStatus(status) /\ c.attempt < c.maxRetries - 1
            THEN EndRound(pool, next, c, jitter)
       ELSE [call |-> Throw(c, Some(error)), next |-> next]

\* makeRequestWithRetry whose loop tests after its first round (do-while):
\* the first round runs whatever maxRetries is.
Enter_FirstRoundAlways(pool, next, maxRetriesOpt, preferredKeyIndex, jitter) ==
    LET c == [IdleCall EXCEPT !.maxRetries = ResolveMaxRetries(maxRetriesOpt),
                              !.preferredKeyIndex = preferredKeyIndex]
        r == getClientOrder(pool, next, preferredKeyIndex)
        d == [c EXCEPT !.order = r.order, !.start = r.start,
                       !.rounds = 1,
                       !.cursorWrites = IF r.wrote THEN 1 ELSE 0]
    IN IF ~hasAI(pool)
       THEN [call |-> Throw(c, Some(NotInitializedError)), next |-> next]
       ELSE [call |-> Invoke(d, 1), next |-> r.next]

\* makeRequestWithRetry up to its first await or to the throw that ends it.
Enter(pool, next, maxRetriesOpt, preferredKeyIndex, jitter) ==
    LET c == [IdleCall EXCEPT !.maxRetries = ResolveMaxRetries(maxRetriesOpt),
                              !.preferredKeyIndex = preferredKeyIndex]
    IN IF ~hasAI(pool)
       THEN [call |-> Throw(c, Some(NotInitializedError)), next |-> next]
       ELSE OuterLoop(pool, next, c, jitter)

\* The latest n entries of a sequence.
LastN(seq, n) ==
    IF Len(seq) <= n THEN seq ELSE SubSeq(seq, Len(seq) - n + 1, Len(seq))

\* The step of slot id takes the call from before to r.call and the cursor
\* to r.next; a round that wrote the cursor adds its start to starts.
Step(id, r) ==
    /\ call' = [call EXCEPT ![id] = r.call]
    /\ nextClientIndex' = r.next
    /\ starts' = IF r.call.cursorWrites > call[id].cursorWrites
                 THEN LastN(Append(starts, r.call.start), Len(clients))
                 ELSE starts
    /\ UNCHANGED <<clients, probe>>

Init ==
    /\ clients \in {Pool(n) : n \in 0..MaxClients}
    /\ nextClientIndex = 0
    /\ call = [id \in Calls |-> IdleCall]
    /\ starts = <<>>
    /\ probe = NoProbe
    /\ browser = NoBrowser

\* A call that cannot begin while another call sleeps (a sleep that blocks
\* the thread).
Call_BlockedBySleep(id, maxRetriesOpt, preferredKeyIndex, jitter) ==
    /\ call[id].pc = "idle"
    /\ \A other \in Calls : call[other].pc # "sleep"
    /\ Step(id, Enter(clients, nextClientIndex, maxRetriesOpt, preferredKeyIndex, jitter))
    /\ UNCHANGED browser

\* A caller calls makeRequestWithRetry(operation, {maxRetries, preferredKeyIndex}).
Call(id, maxRetriesOpt, preferredKeyIndex, jitter) ==
    /\ call[id].pc = "idle"
    /\ Step(id, Enter(clients, nextClientIndex, maxRetriesOpt, preferredKeyIndex, jitter))
    /\ UNCHANGED browser

\* The awaited operation(ai) returns value: return await operation(ai).
OperationReturns(id, value) ==
    /\ call[id].pc = "operation"
    /\ LET c == call[id]
           result == [client |-> c.order[c.pos], id |-> Invocation(c), value |-> value]
       IN Step(id, [call |-> Return(c, result), next |-> nextClientIndex])
    /\ UNCHANGED browser

\* The awaited operation(ai) throws error: the catch block and what follows
\* it up to the next await or the end of the call.
OperationThrows(id, error, jitter) ==
    /\ call[id].pc = "operation"
    /\ LET c == call[id]
       IN Step(id, Catch(clients, nextClientIndex, c,
                         [error EXCEPT !.id = Invocation(c)], jitter))
    /\ UNCHANGED browser

\* The backoff timer fires: attempt++, the loop test and the next round.
TimerFires(id, jitter) ==
    /\ call[id].pc = "sleep"
    /\ Step(id, OuterLoop(clients, nextClientIndex,
                          [call[id] EXCEPT !.attempt = @ + 1], jitter))
    /\ UNCHANGED browser

\* The caller has the outcome: the slot is free for the next call.
Settle(id) ==
    /\ call[id].pc = "done"
    /\ Step(id, [call |-> IdleCall, next |-> nextClientIndex])
    /\ UNCHANGED browser

\* What an operation returns: the generated text.
Results == {"text"}

\* The steps of the calls in slots ids, callers drawing maxRetries from
\* retries and preferredKeyIndex from prefs, operations throwing errors of
\* errors, Math.random() * 500 giving a value of jitters.
NextOf(ids, retries, prefs, errors, jitters) ==
    \E id \in ids, j \in jitters :
        \/ \E m \in retries, p \in prefs : Call(id, m, p, j)
        \/ \E v \in Results : OperationReturns(id, v)
        \/ \E e \in errors : OperationThrows(id, e, j)
        \/ TimerFires(id, j)
        \/ Settle(id)

\* One call after another, with every option value and every error.
Next == NextOf({"a"}, MaxRetriesValues, PrefValues, OperationErrors, Jitters)

Spec == Init /\ [][Next]_vars

\* Calls with every maxRetries and every error, when every awaited
\* operation settles (it returns or it throws) and every backoff timer
\* fires; whether a call ends depends on neither the preferred index nor
\* the jitter, of which one value each is taken.
NextLive ==
    NextOf({"a"}, MaxRetriesValues, {PrefUndefined}, OperationErrors, {JitterRange - 1})

OperationSettles(id) ==
    \/ \E v \in Results : OperationReturns(id, v)
    \/ \E e \in OperationErrors : OperationThrows(id, e, JitterRange - 1)

SpecLive ==
    /\ Init /\ [][NextLive]_vars
    /\ WF_vars(OperationSettles("a"))
    /\ WF_vars(TimerFires("a", JitterRange - 1))

\* Calls in flight at once.  They are made the way the methods of the
\* service make them (generateReviewDraft ... generateInsights): with
\* { preferredKeyIndex } only, so with the default maxRetries.  The operation
\* throws one error of each kind the catch block tells apart.
ConcurrentPrefs == {PrefUndefined, PrefNumber(0 - 1), PrefNumber(MaxClients + 1)}

ConcurrentErrors ==
    {e \in OperationErrors :
        e.message \in {"Quota exceeded for quota metric", "API key not valid",
                       "The model is overloaded", "Invalid argument"}}

NextConcurrent ==
    NextOf(Calls, {Undefined}, ConcurrentPrefs, ConcurrentErrors, {JitterRange - 1})

SpecConcurrent == Init /\ [][NextConcurrent]_vars

\* Every operation invocation fails with a transient error: one whose status
\* (its own or its response's) is retryable and not 429.
TransientStatuses == {408, 500, 502, 503, 504}

TransientErrors ==
    {e \in OperationErrors :
        \/ IsDefined(e.status) /\ Val(e.status) \in TransientStatuses
        \/ ~IsDefined(e.status) /\ IsDefined(e.response)
                                /\ Val(e.response) \in TransientStatuses}

NextTransient ==
    \E id \in {"a"}, j \in Jitters :
        \/ \E m \in MaxRetriesValues, p \in PrefValues : Call(id, m, p, j)
        \/ \E e \in TransientErrors : OperationThrows(id, e, j)
        \/ TimerFires(id, j)
        \/ Settle(id)

SpecTransient == Init /\ [][NextTransient]_vars

\* Every invocation fails with a key-local error: a 401, a 403, or a 429
\* whose message has no quota marker.
KeyLocalErrors ==
    {e \in OperationErrors :
        LET status == IF IsDefined(e.status) THEN e.status ELSE e.response
        IN \/ status \in {Some(401), Some(403)}
           \/ status = Some(429) /\ e.message \notin QuotaMarked}

NextKeyLocal ==
    \E id \in {"a"}, j \in Jitters :
        \/ \E m \in MaxRetriesValues, p \in PrefValues : Call(id, m, p, j)
        \/ \E e \in KeyLocalErrors : OperationThrows(id, e, j)
        \/ TimerFires(id, j)
        \/ Settle(id)

SpecKeyLocal == Init /\ [][NextKeyLocal]_vars

\* ------------------------------------------------------- the web client
\* String(n) of an integer: its decimal digits, "-" before a negative one.
RECURSIVE DigitsOf(_)
DigitsOf(n) ==
    IF n < 10 THEN <<Digits[n + 1]>>
    ELSE Append(DigitsOf(n \div 10), Digits[(n % 10) + 1])

StringOf(n) == IF n < 0 THEN <<"-">> \o DigitsOf(0 - n) ELSE DigitsOf(n)

\* parseInt(raw, 10) of a string or of null / undefined, which give NaN.
ParseIntOf(raw) == IF IsDefined(raw) THEN ParseInt10(Val(raw)) ELSE Undefined

\* Bounds of the browser's counter: the random starts drawn (of the
\* 1,000,000,000 that Math.floor(Math.random() * 1_000_000_000) can
\* give), and the largest index a request is sent with.
MaxRandomStart == 1
MaxKeyIndex == 5

\* getNextKeyIndexForRequest whose item is stored without the increment.
getNextKeyIndexForRequest_NoIncrement(storage, random) ==
    LET parsed == ParseIntOf(storage)
        current == IF IsDefined(parsed) THEN Val(parsed) ELSE random
    IN [current |-> current, storage |-> Some(StringOf(current))]

\* getNextKeyIndexForRequest() in a browser (window.localStorage exists)
\* whose item holds storage, Math.floor(Math.random() * ...) being random:
\* the index it returns and the item it stores.
getNextKeyIndexForRequest(storage, random) ==
    LET parsed == ParseIntOf(storage)
        current == IF IsDefined(parsed) THEN Val(parsed) ELSE random
    IN [current |-> current, storage |-> Some(StringOf(current + 1))]

\* withKeyIndexHeader(): the X-AI-Key-Index header of the request.
withKeyIndexHeader(keyIndex) == Some(StringOf(keyIndex))

\* getPreferredKeyIndex(req): the header parsed, undefined if not finite.
getPreferredKeyIndex(header) ==
    LET parsed == ParseIntOf(header)
    IN IF IsDefined(parsed) THEN PrefNumber(Val(parsed)) ELSE PrefUndefined

\* The browser sends an AI request and the route's controller calls the
\* service with the index of its header (no maxRetries option).
Request(id, random, jitter) ==
    /\ call[id].pc = "idle"
    /\ \E k \in {getNextKeyIndexForRequest(browser.storage, random)} :
       \E header \in {withKeyIndexHeader(k.current)} :
       \E r \in {Enter(clients, nextClientIndex, Undefined,
                       getPreferredKeyIndex(header), jitter)} :
          /\ k.current < MaxKeyIndex
          /\ Step(id, r)
          /\ browser' = [storage |-> k.storage,
                         sent |-> LastN(Append(browser.sent,
                                               [index |-> k.current,
                                                header |-> header,
                                                start |-> r.call.start,
                                                moved |-> r.next # nextClientIndex]),
                                        Len(clients))]

\* The error of this scenario: the model is overloaded (503).
BrowserErrors ==
    {e \in OperationErrors : e.message = "The model is overloaded"}

\* The requests of one browser, one at a time (slot "a"), next to calls
\* made without a header (slot "b").
NextBrowser ==
    \/ \E random \in 0..MaxRandomStart : Request("a", random, JitterRange - 1)
    \/ Call("b", Undefined, PrefUndefined, JitterRange - 1)
    \/ \E id \in Calls :
        \/ \E v \in Results : OperationReturns(id, v)
        \/ \E e \in BrowserErrors : OperationThrows(id, e, JitterRange - 1)
        \/ TimerFires(id, JitterRange - 1)
        \/ Settle(id)

SpecBrowser == Init /\ [][NextBrowser]_vars

\* ------------------------------------------------------- construction
\* A string is a sequence of characters. k.trim(): the string without its
\* leading and trailing white space.
RECURSIVE TrimEnd(_)
TrimEnd(str) ==
    IF str # <<>> /\ IsSpace(str[Len(str)])
    THEN TrimEnd(SubSeq(str, 1, Len(str) - 1)) ELSE str

\* trim that leaves the trailing white space.
Trim_StartOnly(str) == SkipSpaces(str)

Trim(str) == TrimEnd(SkipSpaces(str))

\* value.split(','): the pieces between the commas, the empty ones included;
\* a string without a comma is one piece.
RECURSIVE Split(_, _)
Split(str, piece) ==
    IF str = <<>> THEN <<piece>>
    ELSE IF Head(str) = "," THEN <<piece>> \o Split(Tail(str), <<>>)
    ELSE Split(Tail(str), Append(piece, Head(str)))

\* .filter(Boolean) on strings: the non-empty ones, in order.
FilterBoolean(list) == SelectSeq(list, LAMBDA k : k # <<>>)

\* parseKeyList(value), value a string or undefined.
parseKeyList(value) ==
    IF ~IsDefined(value) \/ Val(value) = <<>> THEN <<>>
    ELSE FilterBoolean([i \in 1..Len(Split(Val(value), <<>>)) |->
                            Trim(Split(Val(value), <<>>)[i])])

\* new GoogleGenAI({ apiKey })
GoogleGenAI(apiKey) == [apiKey |-> apiKey]

\* The constructor from process.env.GEMINI_API_KEYS and
\* process.env.GEMINI_API_KEY: the fields it sets and whether it warned.
Constructor(keysEnv, keyEnv) ==
    LET listed == parseKeyList(keysEnv)
        apiKeys == IF Len(listed) = 0 /\ IsDefined(keyEnv) /\ Val(keyEnv) # <<>>
                   THEN FilterBoolean(<<Trim(Val(keyEnv))>>)
                   ELSE listed
        made == [i \in 1..Len(apiKeys) |-> GoogleGenAI(apiKeys[i])]
    IN [apiKeys |-> apiKeys,
        clients |-> made,
        nextClientIndex |-> 0,
        warned |-> Len(made) = 0]

\* --------------------------------------------------------- cleanJson
\* A text is a sequence of tokens: the braces and brackets, "," and " ",
\* "1" (a digit), "k" (a key with its colon, "k":), "x" (any other
\* character), and the two fence markers: "fence-json" (three backticks and
\* the word json) and "fence" (three backticks).
\* A JSON value is held as its tokens without white space, an object (all
\* keys are "k") with its last member only, as JSON.parse keeps it.
ParseFailed == [ok |-> FALSE, value |-> <<>>, rest |-> <<>>]

RECURSIVE ParseDigitRun(_, _)
ParseDigitRun(toks, run) ==
    IF toks # <<>> /\ Head(toks) = "1"
    THEN ParseDigitRun(Tail(toks), Append(run, "1"))
    ELSE [ok |-> TRUE, value |-> run, rest |-> toks]

Closer(opener) == IF opener = "{" THEN "}" ELSE "]"

\* ParseValue reads one value off the front of toks; ParseMembers reads
\* the members of an array or an object after its opener or a comma, acc
\* being the members read so far.
RECURSIVE ParseValue(_), ParseMembers(_, _, _)
ParseMembers(toks, acc, opener) ==
    LET t == SkipSpaces(toks)
        keyed == opener = "{"
        item == ParseValue(IF keyed THEN Tail(t) ELSE t)
        u == SkipSpaces(item.rest)
        members == IF keyed THEN <<"k">> \o item.value
                   ELSE IF acc = <<>> THEN item.value
                   ELSE acc \o <<",">> \o item.value
    IN IF keyed /\ (t = <<>> \/ Head(t) # "k") THEN ParseFailed
       ELSE IF ~item.ok \/ u = <<>> THEN ParseFailed
       ELSE IF Head(u) = "," THEN ParseMembers(Tail(u), members, opener)
       ELSE IF Head(u) = Closer(opener)
       THEN [ok |-> TRUE, value |-> <<opener>> \o members \o <<Closer(opener)>>,
             rest |-> Tail(u)]
       ELSE ParseFailed

ParseValue(toks) ==
    LET t == SkipSpaces(toks)
    IN IF t = <<>> THEN ParseFailed
       ELSE IF Head(t) = "1" THEN ParseDigitRun(t, <<>>)
       ELSE IF Head(t) \in {"{", "["}
       THEN LET u == SkipSpaces(Tail(t))
            IN IF u # <<>> /\ Head(u) = Closer(Head(t))
               THEN [ok |-> TRUE, value |-> <<Head(t), Closer(Head(t))>>, rest |-> Tail(u)]
               ELSE ParseMembers(Tail(t), <<>>, Head(t))
       ELSE ParseFailed

\* JSON.parse(text): one value and nothing but white space after it.
JSONparse(text) ==
    LET r == ParseValue(text)
    IN IF r.ok /\ SkipSpaces(r.rest) = <<>> THEN [ok |-> TRUE, value |-> r.value]
       ELSE [ok |-> FALSE, value |-> <<>>]

\* text.replace(/marker/g, '')
RemoveAll(text, marker) == SelectSeq(text, LAMBDA tok : tok # marker)

\* text.indexOf(tok) and text.lastIndexOf(tok): 0-based, -1 if absent.
IndexOf(text, tok) ==
    IF \E i \in 1..Len(text) : text[i] = tok
    THEN (CHOOSE i \in 1..Len(text) : text[i] = tok /\ \A j \in 1..(i - 1) : text[j] # tok) - 1
    ELSE 0 - 1

LastIndexOf(text, tok) ==
    IF \E i \in 1..Len(text) : text[i] = tok
    THEN (CHOOSE i \in 1..Len(text) :
            text[i] = tok /\ \A j \in (i + 1)..Len(text) : text[j] # tok) - 1
    ELSE 0 - 1

\* text.substring(from, to): both clamped to 0..length and swapped when
\* from > to.
Clamp(i, len) == IF i < 0 THEN 0 ELSE IF i > len THEN len ELSE i

Substring_NoSwap(text, from, to) ==
    SubSeq(text, Clamp(from, Len(text)) + 1, Clamp(to, Len(text)))

Substring(text, from, to) ==
    LET a == Clamp(from, Len(text))
        b == Clamp(to, Len(text))
    IN IF a > b THEN SubSeq(text, b + 1, a) ELSE SubSeq(text, a + 1, b)

\* The length of the text quoted in cleanJson's own error.
PrefixLength == 100

\* What cleanJson does: it returns value, or throws an error of the given
\* name whose message quotes a text: cleanJson's own Error quotes the start
\* of the text, JSON.parse's SyntaxError at most the string it was given.
Returns(value) == [returned |-> TRUE, value |-> value, name |-> "none", quotes |-> <<>>]
Throws(name, quotes) == [returned |-> FALSE, value |-> <<>>, name |-> name, quotes |-> quotes]

\* cleanJson(text)
cleanJson(text) ==
    LET simple == Trim(RemoveAll(RemoveAll(text, "fence-json"), "fence"))
        firstBrace == IndexOf(text, "{")
        lastBrace == LastIndexOf(text, "}")
        firstBracket == IndexOf(text, "[")
        lastBracket == LastIndexOf(text, "]")
        brace == firstBrace # 0 - 1 /\ (firstBracket = 0 - 1 \/ firstBrace < firstBracket)
        start == IF brace THEN firstBrace
                 ELSE IF firstBracket # 0 - 1 THEN firstBracket ELSE 0 - 1
        end == IF brace THEN lastBrace
               ELSE IF firstBracket # 0 - 1 THEN lastBracket ELSE 0 - 1
        substring == Substring(text, start, end + 1)
    IN IF JSONparse(simple).ok THEN Returns(JSONparse(simple).value)
       ELSE IF start # 0 - 1 /\ end # 0 - 1
       THEN IF JSONparse(substring).ok THEN Returns(JSONparse(substring).value)
            ELSE Throws("SyntaxError", substring)
       ELSE Throws("Error", Substring(text, 0, PrefixLength))

\* ------------------------------------------- the functions on their own
\* Each behaviour of SpecPure is one evaluation of one function: probe holds
\* the function's name, its inputs and what it gave.
\* Bounds of the inputs the functions are evaluated on.
MaxProbeNumber == 7    \* numbers range over -MaxProbeNumber .. MaxProbeNumber
MaxProbeString == 3    \* longest string passed as a preferred index

\* All sequences over alphabet of length at most n.
RECURSIVE SeqsUpTo(_, _)
SeqsUpTo(alphabet, n) ==
    IF n = 0 THEN {<<>>}
    ELSE LET shorter == SeqsUpTo(alphabet, n - 1)
         IN shorter \cup {Append(t, ch) : t \in shorter, ch \in alphabet}

\* The values passed to normalizePreferredKeyIndex: undefined, null, NaN,
\* numbers of either sign, and strings of signs, digits, letters and spaces.
ProbeValues ==
    {PrefUndefined, PrefNull, PrefNaN}
        \cup {PrefNumber(k) : k \in (0 - MaxProbeNumber)..MaxProbeNumber}
        \cup {PrefString(str) : str \in SeqsUpTo({"-", "1", "2", "x", " "}, MaxProbeString)}

\* normalizePreferredKeyIndex(value) on a pool of n clients.
NormalizeProbe(n, value) ==
    /\ probe = NoProbe
    /\ probe' = [fn |-> "normalizePreferredKeyIndex", count |-> n, value |-> value,
                 out |-> normalizePreferredKeyIndex(Pool(n), value)]
    /\ UNCHANGED <<clients, nextClientIndex, call, starts, browser>>

\* getClientOrder(value) on a pool of n clients with the cursor at next.
OrderProbe(n, next, value) ==
    /\ probe = NoProbe
    /\ probe' = [fn |-> "getClientOrder", count |-> n, next |-> next, value |-> value,
                 out |-> getClientOrder(Pool(n), next, value)]
    /\ UNCHANGED <<clients, nextClientIndex, call, starts, browser>>

\* Bounds of the environment the constructor is evaluated on.
MaxKeysLength == 4     \* longest GEMINI_API_KEYS
MaxKeyLength == 2      \* longest GEMINI_API_KEY

\* An environment variable: unset, or a string.
EnvValues(alphabet, n) == {Undefined} \cup {Some(str) : str \in SeqsUpTo(alphabet, n)}

\* new GeminiService() in an environment.
ConstructorProbe(keysEnv, keyEnv) ==
    /\ probe = NoProbe
    /\ probe' = [fn |-> "constructor", keysEnv |-> keysEnv, keyEnv |-> keyEnv,
                 out |-> Constructor(keysEnv, keyEnv)]
    /\ UNCHANGED <<clients, nextClientIndex, call, starts, browser>>

\* Bound of the texts cleanJson is evaluated on, and their tokens.
MaxTextLength == 4
Tokens == {"{", "}", "[", "]", ",", " ", "1", "k", "x", "fence-json", "fence"}

\* cleanJson(text)
CleanJsonProbe(text) ==
    /\ probe = NoProbe
    /\ probe' = [fn |-> "cleanJson", text |-> text, out |-> cleanJson(text)]
    /\ UNCHANGED <<clients, nextClientIndex, call, starts, browser>>

\* Bound of the round indices the backoff delay is evaluated on.
MaxAttempt == 5

\* The delay computed after round attempt, Math.random() * 500 being jitter.
BackoffProbe(attempt, jitter) ==
    /\ probe = NoProbe
    /\ probe' = [fn |-> "backoff", attempt |-> attempt, jitter |-> jitter,
                 out |-> BackoffDelay(attempt, jitter)]
    /\ UNCHANGED <<clients, nextClientIndex, call, starts, browser>>

InitPure ==
    /\ clients = <<>>
    /\ nextClientIndex = 0
    /\ call = [id \in Calls |-> IdleCall]
    /\ starts = <<>>
    /\ probe = NoProbe
    /\ browser = NoBrowser

NextPure ==
    /\ probe = NoProbe
    /\ \/ \E n \in 0..MaxClients, v \in ProbeValues : NormalizeProbe(n, v)
       \/ \E n \in 0..MaxClients, next \in 0..MaxClients,
             v \in {PrefUndefined} \cup {PrefNumber(k) : k \in (0 - MaxProbeNumber)..MaxProbeNumber} :
               OrderProbe(n, next, v)
       \/ \E keysEnv \in EnvValues({"a", "b", ",", " "}, MaxKeysLength),
             keyEnv \in EnvValues({"a", " "}, MaxKeyLength) :
               ConstructorProbe(keysEnv, keyEnv)
       \/ \E text \in SeqsUpTo(Tokens, MaxTextLength) : CleanJsonProbe(text)
       \/ \E attempt \in 0..MaxAttempt, jitter \in 0..(JitterRange - 1) :
            BackoffProbe(attempt, jitter)

SpecPure == InitPure /\ [][NextPure]_vars

\* ========================================================== properties
\* What the properties read off an error: its status (its own, else its
\* response's) and the class the status and the message put it in.
StatusOf(e) == IF IsDefined(e.status) THEN e.status ELSE e.response
QuotaShaped(e) == StatusOf(e) = <<429>> /\ e.message \in QuotaMarked
KeyLocalShaped(e) ==
    \/ StatusOf(e) \in {<<401>>, <<403>>}
    \/ StatusOf(e) = <<429>> /\ e.message \notin QuotaMarked
TransientShaped(e) ==
    IsDefined(StatusOf(e)) /\ Val(StatusOf(e)) \in TransientStatuses

PoolSize == Len(clients)
Running(c) == c.pc # "idle"
Returned(c) == c.pc = "done" /\ Val(c.outcome).kind = "return"
Threw(c) == c.pc = "done" /\ Val(c.outcome).kind = "throw"
Thrown(c) == Val(c.outcome).error
Result(c) == Val(Val(c.outcome).result)
Pinned(c) == IsDefined(normalizePreferredKeyIndex(clients, c.preferredKeyIndex))
\* The latest invocation of the call: the last client tried in the round begun last.
LatestInvocation(c) == [round |-> c.rounds - 1, pos |-> Len(c.tried)]

\* C1: an operation failure with status 429 and a quota marker in its
\* message, at any position of any round, ends the call at once: the call
\* throws the status-429 "Gemini quota exceeded" error with a user message,
\* the failed invocation is the call's latest one (no further client, no
\* further round), and the call has slept only before that round.
C1_QuotaShortCircuits ==
    \A id \in Calls :
        LET c == call[id]
        IN (IsDefined(c.lastError) /\ QuotaShaped(Val(c.lastError))) =>
            /\ Threw(c)
            /\ IsDefined(Thrown(c))
            /\ Val(Thrown(c)).status = <<429>>
            /\ Val(Thrown(c)).message = "Gemini quota exceeded"
            /\ IsDefined(Val(Thrown(c)).userMessage)
            /\ Val(c.lastError).id = LatestInvocation(c)
            /\ c.rounds = Val(c.lastError).id.round + 1
            /\ c.sleeps = Val(c.lastError).id.round

C1_Witness ==
    \E id \in Calls :
        /\ Threw(call[id])
        /\ IsDefined(call[id].lastError)
        /\ QuotaShaped(Val(call[id].lastError))
        /\ Val(call[id].lastError).id.round >= 1
        /\ Val(call[id].lastError).id.pos >= 2

\* C2: with an empty pool every call fails at once with the status-503
\* "AI service not initialized" error: no round is begun, no client is
\* invoked, no sleep is begun, and the cursor keeps its initial value.
C2_EmptyPoolFailsFast ==
    clients = <<>> =>
        /\ nextClientIndex = 0
        /\ starts = <<>>
        /\ \A id \in Calls :
            LET c == call[id]
            IN /\ c.pc \in {"idle", "done"}
               /\ c.pc = "done" =>
                    /\ Threw(c)
                    /\ IsDefined(Thrown(c))
                    /\ Val(Thrown(c)).status = <<503>>
                    /\ Val(Thrown(c)).message = "AI service not initialized"
                    /\ IsDefined(Val(Thrown(c)).userMessage)
                    /\ c.rounds = 0 /\ c.tried = <<>> /\ c.sleeps = 0
                    /\ c.cursorWrites = 0 /\ ~IsDefined(c.lastError)

C2_Witness ==
    /\ clients = <<>>
    /\ \E id \in Calls : Threw(call[id]) /\ call[id].maxRetries >= 1

\* C3 as stated: every call that has ended has returned a result or thrown
\* an error that carries a status code and a user message (stated for the
\* calls with maxRetries >= 1, which begin a round).
C3_EveryFailureClassified ==
    \A id \in Calls :
        LET c == call[id]
        IN (c.pc = "done" /\ c.maxRetries >= 1) =>
            \/ Returned(c) /\ IsDefined(Val(c.outcome).result)
            \/ /\ Threw(c)
               /\ IsDefined(Thrown(c))
               /\ IsDefined(StatusOf(Val(Thrown(c))))
               /\ IsDefined(Val(Thrown(c)).userMessage)

\* C3 amended: a call ends by returning the result of the invocation it
\* awaited, or by throwing one of: the dispatcher's own 503 error (empty
\* pool) or 429 quota error (after a quota failure), each with a status and
\* a user message; the last error the operation threw, itself and unchanged,
\* so with the status and the user message the operation gave it, if any;
\* or undefined, when maxRetries <= 0 let no round begin.
C3_EndsByResultOrKnownThrow ==
    \A id \in Calls :
        LET c == call[id]
        IN c.pc = "done" =>
            \/ /\ Returned(c)
               /\ Result(c).id = LatestInvocation(c)
               /\ Result(c).client = c.order[Len(c.tried)]
               /\ Result(c).value \in Results
            \/ /\ Threw(c) /\ PoolSize = 0
               /\ IsDefined(Thrown(c))
               /\ Val(Thrown(c)).origin = "dispatcher"
               /\ Val(Thrown(c)).status = <<503>>
               /\ IsDefined(Val(Thrown(c)).userMessage)
            \/ /\ Threw(c) /\ PoolSize > 0
               /\ IsDefined(c.lastError) /\ QuotaShaped(Val(c.lastError))
               /\ IsDefined(Thrown(c))
               /\ Val(Thrown(c)).origin = "dispatcher"
               /\ Val(Thrown(c)).status = <<429>>
               /\ IsDefined(Val(Thrown(c)).userMessage)
            \/ /\ Threw(c) /\ PoolSize > 0
               /\ IsDefined(c.lastError) /\ ~QuotaShaped(Val(c.lastError))
               /\ Thrown(c) = c.lastError
               /\ Val(Thrown(c)).origin = "operation"
               /\ Val(Thrown(c)).id = LatestInvocation(c)
               /\ \E e \in OperationErrors : Val(Thrown(c)) = [e EXCEPT !.id = LatestInvocation(c)]
            \/ /\ Threw(c) /\ PoolSize > 0
               /\ c.maxRetries <= 0 /\ c.rounds = 0
               /\ ~IsDefined(c.lastError)
               /\ ~IsDefined(Thrown(c))

\* A call that threw the operation's own error, which has no user message.
C3_Witness ==
    \E id \in Calls :
        /\ Threw(call[id])
        /\ IsDefined(Thrown(call[id]))
        /\ Val(Thrown(call[id])).origin = "operation"
        /\ ~IsDefined(Val(Thrown(call[id])).userMessage)
        /\ call[id].rounds >= 2

\* C4 as stated: a call made without a preferred index has, when it ends,
\* advanced the cursor by exactly 1 (mod N), however many rounds it ran
\* (each write of the cursor advances it by 1, see C4_CursorAdvancesPerRound).
C4_CursorAdvancesOncePerCall ==
    PoolSize > 0 =>
        \A id \in Calls :
            LET c == call[id]
            IN (c.pc = "done" /\ ~Pinned(c) /\ c.rounds >= 1) =>
                c.cursorWrites % PoolSize = 1 % PoolSize

\* C4 amended: a call made without a preferred index advances the cursor by
\* exactly 1 (mod N) in each round it begins, so by exactly 1 only when it
\* runs one round: it writes the cursor once per round, the cursor is
\* always one past (mod N) the start of the latest unpinned resolution, the
\* starts of consecutive unpinned resolutions each follow the one before by
\* 1 (mod N), and N consecutive ones are N distinct indices covering [0, N).
C4_CursorAdvancesPerRound ==
    PoolSize > 0 =>
        /\ \A id \in Calls :
            Running(call[id]) =>
                call[id].cursorWrites = IF Pinned(call[id]) THEN 0 ELSE call[id].rounds
        /\ starts # <<>> => nextClientIndex = (starts[Len(starts)] + 1) % PoolSize
        /\ \A i \in 1..(Len(starts) - 1) : starts[i + 1] = (starts[i] + 1) % PoolSize
        /\ \A i, j \in 1..Len(starts) : i # j => starts[i] # starts[j]
        /\ Len(starts) = PoolSize => {starts[i] : i \in 1..Len(starts)} = 0..(PoolSize - 1)

\* An unpinned call has ended after three rounds on a pool of three clients
\* whose latest three resolutions are on record.
C4_Witness ==
    /\ PoolSize = 3
    /\ Len(starts) = 3
    /\ \E id \in Calls :
        call[id].pc = "done" /\ ~Pinned(call[id]) /\ call[id].rounds = 3

\* C5 (every invocation fails with a transient error): a call with
\* maxRetries = R >= 1 on a non-empty pool invokes the operation once per
\* round, sleeps once after each round but the last, and ends after R
\* rounds and R - 1 sleeps by throwing the transient error of its last
\* invocation, the first of round R - 1.
C5_TransientExhaustsAllRounds ==
    \A id \in Calls :
        LET c == call[id]
        IN (Running(c) /\ PoolSize > 0 /\ c.maxRetries >= 1) =>
            /\ Len(c.tried) = 1
            /\ c.rounds <= c.maxRetries
            /\ c.pc = "operation" => c.sleeps = c.rounds - 1
            /\ c.pc = "sleep" => c.sleeps = c.rounds /\ c.rounds < c.maxRetries
            /\ c.pc = "done" =>
                /\ c.rounds = c.maxRetries
                /\ c.sleeps = c.maxRetries - 1
                /\ Threw(c)
                /\ IsDefined(Thrown(c))
                /\ Thrown(c) = c.lastError
                /\ TransientShaped(Val(Thrown(c)))
                /\ Val(Thrown(c)).id = [round |-> c.maxRetries - 1, pos |-> 1]

C5_Witness ==
    \E id \in Calls :
        /\ Threw(call[id])
        /\ PoolSize >= 2
        /\ call[id].maxRetries = 3
        /\ call[id].rounds = 3
        /\ call[id].sleeps = 2

\* C6: a call with maxRetries >= 2 whose round 0 ended on a transient
\* failure and whose first invocation of round 1 succeeded returns that
\* invocation's result after exactly one sleep, of a delay d with
\* 1000 <= d < 1500.
C6_OneBackoffThenSuccess ==
    \A id \in Calls :
        LET c == call[id]
        IN (/\ Returned(c)
            /\ c.maxRetries >= 2
            /\ Result(c).id = [round |-> 1, pos |-> 1]
            /\ IsDefined(c.lastError)
            /\ TransientShaped(Val(c.lastError))
            /\ Val(c.lastError).id.round = 0) =>
            /\ Result(c).client = c.start
            /\ c.rounds = 2
            /\ c.sleeps = 1
            /\ 1000 <= c.delay /\ c.delay < 1500

C6_Witness ==
    \E id \in Calls :
        /\ Returned(call[id])
        /\ Result(call[id]).id = [round |-> 1, pos |-> 1]
        /\ IsDefined(call[id].lastError)
        /\ TransientShaped(Val(call[id].lastError))
        /\ call[id].delay = 1499

\* C7: after an AuthError or a per-key RateLimited failure on a client that
\* is not the last of its round's order, the call neither sleeps nor ends
\* in failure: it tries the next client of the same round, and when that
\* client succeeds it returns that client's result, having slept once per
\* earlier round only (not at all in round 0).
C7_KeyLocalFailureTriesNextClient ==
    \A id \in Calls :
        LET c == call[id]
            e == Val(c.lastError)
        IN (/\ Running(c)
            /\ IsDefined(c.lastError)
            /\ KeyLocalShaped(e)
            /\ e.id.round = c.rounds - 1
            /\ e.id.pos < PoolSize) =>
            /\ c.sleeps = e.id.round
            /\ Len(c.tried) = e.id.pos + 1
            /\ c.tried[Len(c.tried)] = c.order[e.id.pos + 1]
            /\ \/ c.pc = "operation"
               \/ /\ Returned(c)
                  /\ Result(c).id = [round |-> e.id.round, pos |-> e.id.pos + 1]
                  /\ Result(c).client = c.order[e.id.pos + 1]

\* On a pool of two, client 0 failed with an AuthError and client 1
\* succeeded: the call returned without a sleep.
C7_Witness ==
    \E id \in Calls :
        /\ PoolSize = 2
        /\ Returned(call[id])
        /\ IsDefined(call[id].lastError)
        /\ StatusOf(Val(call[id].lastError)) = <<403>>
        /\ Val(call[id].lastError).id = [round |-> 0, pos |-> 1]
        /\ Result(call[id]).client = 1
        /\ call[id].tried = <<0, 1>>
        /\ call[id].sleeps = 0

\* C8: in every round of every call the clients invoked are pairwise
\* distinct clients of the pool, and they are the first ones of the cyclic
\* order start, start + 1, ..., start + N - 1 (mod N) from the start index
\* the round resolved.
C8_EachClientOncePerRoundInOrder ==
    \A id \in Calls :
        LET c == call[id]
        IN Running(c) =>
            /\ Len(c.tried) <= PoolSize
            /\ \A i \in 1..Len(c.tried) :
                /\ c.tried[i] \in 0..(PoolSize - 1)
                /\ c.tried[i] = (c.start + (i - 1)) % PoolSize
            /\ \A i, j \in 1..Len(c.tried) : i # j => c.tried[i] # c.tried[j]

\* A round that began at the last client of a pool of three and tried all three.
C8_Witness ==
    \E id \in Calls :
        /\ PoolSize = 3
        /\ call[id].start = 2
        /\ call[id].tried = <<2, 0, 1>>
        /\ call[id].rounds >= 2

\* C9: with a non-empty pool the cursor is an index of the pool, in [0, N),
\* in every state that pinned and unpinned calls in flight at once, with
\* any outcomes, can reach.
C9_CursorInRange ==
    PoolSize > 0 => nextClientIndex \in 0..(PoolSize - 1)

\* The cursor at the last index of a pool of three while a pinned and an
\* unpinned call are both in flight.
C9_Witness ==
    /\ PoolSize = 3
    /\ nextClientIndex = 2
    /\ \E id, other \in Calls :
        /\ call[id].pc \in {"operation", "sleep"} /\ Pinned(call[id])
        /\ call[other].pc \in {"operation", "sleep"} /\ ~Pinned(call[other])
        /\ call[other].rounds >= 2

\* C10: no step of a call whose preferred index normalizes to a concrete
\* index changes the cursor: not the call itself, not the return or the
\* throw of its operation, not the firing of its backoff timer.
C10_PinnedCallKeepsCursor ==
    [][\A id \in Calls :
        LET c == IF call[id].pc = "idle" THEN call'[id] ELSE call[id]
        IN (call'[id] # call[id] /\ Pinned(c)) =>
            /\ nextClientIndex' = nextClientIndex
            /\ starts' = starts]_vars

\* A pinned call has begun its third round while the other call, unpinned,
\* has moved the cursor off its initial value.
C10_Witness ==
    \E id, other \in Calls :
        /\ Pinned(call[id])
        /\ call[id].rounds = 3
        /\ call[id].cursorWrites = 0
        /\ ~Pinned(call[other]) /\ Running(call[other])
        /\ nextClientIndex # 0

\* The index in [0, n) that differs from the integer v by a multiple of n:
\* the mathematical v mod n.
ModIndex(v, n) ==
    CHOOSE r \in 0..(n - 1) : \E k \in (0 - (10 + v * v))..(10 + v * v) : v = k * n + r

\* C11: a call pinned to the preferred index p begins every one of its
\* rounds at client p mod N, whatever the cursor is and whatever the other
\* call in flight does to the cursor between its rounds: the start its
\* current round resolved is p mod N and the first client it tried is that
\* client.
C11_PinnedStartIsDeterministic ==
    \A id \in Calls :
        LET c == call[id]
        IN (Running(c) /\ PoolSize > 0 /\ c.preferredKeyIndex.t = "number"
                /\ c.rounds >= 1) =>
            /\ c.start = ModIndex(c.preferredKeyIndex.n, PoolSize)
            /\ c.order[1] = ModIndex(c.preferredKeyIndex.n, PoolSize)
            /\ c.tried # <<>> => c.tried[1] = ModIndex(c.preferredKeyIndex.n, PoolSize)

\* A call pinned to -1 is in its third round on a pool of three, at client
\* 2, while the other call, unpinned, has moved the cursor to 1 in its
\* second round.
C11_Witness ==
    \E id, other \in Calls :
        /\ PoolSize = 3
        /\ call[id].preferredKeyIndex = PrefNumber(0 - 1)
        /\ call[id].rounds = 3
        /\ call[id].tried[1] = 2
        /\ ~Pinned(call[other])
        /\ call[other].rounds = 2
        /\ nextClientIndex = 1

\* A string from which parseInt reads a number: after leading spaces comes
\* a digit, or a sign followed by a digit.
HasIntegerPrefix(str) ==
    \E i \in 1..Len(str) :
        /\ \A j \in 1..(i - 1) : str[j] = " "
        /\ \/ str[i] \in {"1", "2"}
           \/ str[i] \in {"-", "+"} /\ i < Len(str) /\ str[i + 1] \in {"1", "2"}

\* C12: on a pool of N >= 1 clients normalizePreferredKeyIndex gives, for
\* every integer v, negative ones included, the index v mod N of [0, N);
\* it gives null for null and undefined, for NaN and for a string no number
\* can be read from, and for every value when the pool is empty.
C12_NormalizeIsTrueModulo ==
    probe.fn = "normalizePreferredKeyIndex" =>
        LET v == probe.value
            n == probe.count
        IN /\ (v.t = "number" /\ n >= 1) =>
                /\ probe.out = <<ModIndex(v.n, n)>>
                /\ Val(probe.out) \in 0..(n - 1)
                /\ \E k \in (0 - MaxProbeNumber - 1)..(MaxProbeNumber + 1) :
                        v.n = k * n + Val(probe.out)
           /\ v.t \in {"undefined", "null", "NaN"} => probe.out = <<>>
           /\ (v.t = "string" /\ ~HasIntegerPrefix(v.s)) => probe.out = <<>>
           /\ (v.t = "string" /\ HasIntegerPrefix(v.s) /\ n >= 1) =>
                IsDefined(probe.out) /\ Val(probe.out) \in 0..(n - 1)
           /\ n = 0 => probe.out = <<>>

\* -5 on a pool of three gives 1.
C12_Witness ==
    /\ probe.fn = "normalizePreferredKeyIndex"
    /\ probe.count = 3
    /\ probe.value = PrefNumber(0 - 5)
    /\ probe.out = <<1>>

\* C13: for a pool of N clients and the start s the call resolves (p mod N
\* for a preferred index p, else the cursor mod N), getClientOrder gives
\* the N indices s, s + 1, ..., s + N - 1 (mod N): N pairwise distinct
\* indices whose set is [0, N); for N = 0 it gives the empty sequence.
C13_OrderIsCyclicPermutation ==
    probe.fn = "getClientOrder" =>
        LET n == probe.count
            order == probe.out.order
        IN /\ Len(order) = n
           /\ n = 0 => order = <<>>
           /\ n > 0 =>
                LET s == IF probe.value.t = "number"
                         THEN ModIndex(probe.value.n, n)
                         ELSE ModIndex(probe.next, n)
                IN /\ probe.out.start = s
                   /\ \A i \in 1..n : order[i] = ModIndex(s + (i - 1), n)
                   /\ \A i, j \in 1..n : i # j => order[i] # order[j]
                   /\ {order[i] : i \in 1..n} = 0..(n - 1)

\* The order of a pool of three from the cursor at 2.
C13_Witness ==
    /\ probe.fn = "getClientOrder"
    /\ probe.count = 3
    /\ probe.value = PrefUndefined
    /\ probe.next = 2
    /\ probe.out.order = <<2, 0, 1>>

\* The calls that resolve an unpinned order in the step.
Resolving == {id \in Calls : call'[id].cursorWrites > call[id].cursorWrites}

\* The starts of the latest k unpinned resolutions, over all calls.
LatestStarts(k) == {starts[i] : i \in {j \in 1..Len(starts) : j > Len(starts) - k}}

\* C14: with several calls in flight, a step holds at most one unpinned
\* order resolution, which starts at the cursor as it is before the step and
\* leaves the cursor one further (mod N); no other step moves the cursor;
\* and the start obtained differs from the starts of the N - 1 unpinned
\* resolutions before it, whichever calls made them.
C14_ResolutionIsAtomic ==
    [][PoolSize > 0 =>
        /\ Cardinality(Resolving) <= 1
        /\ \A id \in Resolving :
            /\ call'[id].start = nextClientIndex
            /\ nextClientIndex' = (nextClientIndex + 1) % PoolSize
            /\ call'[id].start \notin LatestStarts(PoolSize - 1)
            /\ starts' # <<>> /\ starts'[Len(starts')] = call'[id].start
        /\ Resolving = {} => nextClientIndex' = nextClientIndex]_vars

\* Both calls are unpinned and in flight on a pool of three, each past its
\* first round, and the latest three resolutions are on record.
C14_Witness ==
    /\ PoolSize = 3
    /\ Len(starts) = 3
    /\ \A id \in Calls :
        /\ call[id].pc \in {"operation", "sleep"}
        /\ ~Pinned(call[id])
        /\ call[id].rounds >= 2

\* The positions of the commas of str, and the number of its pieces.
Commas(str) == {i \in 1..Len(str) : str[i] = ","}
Pieces(str) == Cardinality(Commas(str)) + 1

\* The k-th piece of str: what stands between its (k - 1)-th and its k-th
\* comma, the ends of str standing for the commas that are not there.
PieceOf(str, k) ==
    LET edges == Commas(str) \cup {0, Len(str) + 1}
        from == CHOOSE i \in edges : Cardinality({j \in edges : j < i}) = k - 1
        to == CHOOSE i \in edges : Cardinality({j \in edges : j < i}) = k
    IN SubSeq(str, from + 1, to - 1)

\* str between its first and its last character that is not white space.
Trimmed(str) ==
    LET solid == {i \in 1..Len(str) : str[i] # " "}
    IN IF solid = {} THEN <<>>
       ELSE SubSeq(str, CHOOSE i \in solid : \A j \in solid : i <= j,
                        CHOOSE i \in solid : \A j \in solid : j <= i)

\* The entries of a configured list: its trimmed pieces that are not
\* empty, in the order of the list.
Entries(env) ==
    IF env = Undefined THEN <<>>
    ELSE LET str == Val(env)
             kept == {k \in 1..Pieces(str) : Trimmed(PieceOf(str, k)) # <<>>}
         IN [i \in 1..Cardinality(kept) |->
                Trimmed(PieceOf(str, CHOOSE k \in kept :
                                        Cardinality({j \in kept : j < k}) = i - 1))]

\* C15 as stated: no two clients of the pool hold the same credential, and
\* the credentials of the pool are the distinct credentials of the
\* configured list, each at the position of its first occurrence.
C15_PoolIsDeduplicated ==
    (probe.fn = "constructor" /\ Entries(probe.keysEnv) # <<>>) =>
        LET made == probe.out.clients
            entries == Entries(probe.keysEnv)
            firsts == {i \in 1..Len(entries) : \A j \in 1..(i - 1) : entries[j] # entries[i]}
        IN /\ \A i, j \in 1..Len(made) : i # j => made[i].apiKey # made[j].apiKey
           /\ Len(made) = Cardinality(firsts)
           /\ \A i \in firsts :
                made[Cardinality({j \in firsts : j <= i})].apiKey = entries[i]

\* C16: the pool holds one client per entry of GEMINI_API_KEYS (its pieces
\* between commas, trimmed, the empty ones dropped), in the order of the
\* list; when the list has no entry and only then, the pool is the one
\* client of the trimmed GEMINI_API_KEY if that is not empty; when neither
\* gives a credential the pool has no client, and the constructor has set
\* its fields all the same (the cursor at 0) and only warned.
C16_PoolFollowsConfiguredList ==
    probe.fn = "constructor" =>
        LET made == probe.out.clients
            entries == Entries(probe.keysEnv)
            legacy == IF probe.keyEnv = Undefined THEN <<>> ELSE Trimmed(Val(probe.keyEnv))
        IN /\ entries # <<>> =>
                /\ Len(made) = Len(entries)
                /\ \A i \in 1..Len(entries) : made[i].apiKey = entries[i]
           /\ (entries = <<>> /\ legacy # <<>>) => made = <<[apiKey |-> legacy]>>
           /\ (entries = <<>> /\ legacy = <<>>) => made = <<>>
           /\ probe.out.apiKeys = [i \in 1..Len(made) |-> made[i].apiKey]
           /\ probe.out.nextClientIndex = 0
           /\ probe.out.warned <=> made = <<>>

\* A list with an empty piece between two entries, next to a legacy
\* credential that is not used.
C16_Witness ==
    /\ probe.fn = "constructor"
    /\ probe.keysEnv = Some(<<"b", ",", ",", "a">>)
    /\ probe.keyEnv = Some(<<"a", " ">>)
    /\ probe.out.clients = <<[apiKey |-> <<"b">>], [apiKey |-> <<"a">>]>>

\* whole has part as a run of consecutive tokens.
Contains(whole, part) ==
    \E i \in 0..(Len(whole) - Len(part)) : SubSeq(whole, i + 1, i + Len(part)) = part

\* C17 as stated: whenever cleanJson fails, be it that no delimiter pair is
\* found or that the delimited substring does not parse, the message of the
\* error it throws contains the first 100 characters of the text.
C17_FailureQuotesTheText ==
    (probe.fn = "cleanJson" /\ ~probe.out.returned) =>
        Contains(probe.out.quotes, SubSeq(probe.text, 1, Min(Len(probe.text), PrefixLength)))

\* The text from its first opener through the last closer that matches it.
Delimited(text) ==
    LET braces == {i \in 1..Len(text) : text[i] = "{"}
        brackets == {i \in 1..Len(text) : text[i] = "["}
        first(set) == CHOOSE i \in set : \A j \in set : i <= j
        opener == IF braces # {} /\ (brackets = {} \/ first(braces) < first(brackets))
                  THEN "{" ELSE "["
        from == first({i \in 1..Len(text) : text[i] = opener})
        closers == {i \in 1..Len(text) : text[i] = Closer(opener)}
    IN IF braces \cup brackets = {} \/ closers = {} THEN <<>>
       ELSE SubSeq(text, from, CHOOSE i \in closers : \A j \in closers : j <= i)

\* C18 as stated: a value cleanJson returns is the parse of the text with
\* the fence markers removed and trimmed, or, when that does not parse, the
\* parse of the text from its first opener through the last matching closer.
C18_ReturnsOnlyParsedText ==
    (probe.fn = "cleanJson" /\ probe.out.returned) =>
        LET simple == Trimmed(SelectSeq(probe.text, LAMBDA tok : tok \notin {"fence-json", "fence"}))
        IN \/ JSONparse(simple).ok /\ probe.out.value = JSONparse(simple).value
           \/ /\ ~JSONparse(simple).ok
              /\ JSONparse(Delimited(probe.text)).ok
              /\ probe.out.value = JSONparse(Delimited(probe.text)).value

\* The call's awaited invocation threw in the step: the call's last error
\* is now the error of that invocation.
ThrewInStep(id) ==
    /\ call[id].pc = "operation"
    /\ IsDefined(call'[id].lastError)
    /\ Val(call'[id].lastError).origin = "operation"
    /\ Val(call'[id].lastError).id = Invocation(call[id])
    /\ call'[id].lastError # call[id].lastError

\* C19: when an invocation in a round that is not the call's last fails
\* with a transient error (408, 500, 502, 503, 504), the round ends there:
\* no further client of the round's order is invoked, the call goes to one
\* backoff sleep without resolving an order or touching the cursor, and
\* the step that ends the sleep begins the next round with the invocation
\* of its first client, with no second sleep.
C19_TransientEndsRound ==
    [][\A id \in Calls :
        LET c == call[id]
            d == call'[id]
        IN /\ (/\ ThrewInStep(id)
               /\ TransientShaped(Val(d.lastError))
               /\ c.rounds < c.maxRetries) =>
                /\ d.pc = "sleep"
                /\ d.tried = c.tried /\ d.pos = c.pos /\ d.order = c.order
                /\ d.rounds = c.rounds
                /\ d.sleeps = c.sleeps + 1
                /\ d.attempt = c.attempt
                /\ nextClientIndex' = nextClientIndex
           /\ (c.pc = "sleep" /\ d # c) =>
                /\ d.pc = "operation"
                /\ d.rounds = c.rounds + 1
                /\ d.attempt = c.attempt + 1
                /\ d.sleeps = c.sleeps
                /\ d.tried = <<d.start>>
                /\ IsDefined(c.lastError)
                /\ Val(c.lastError).id.round = c.rounds - 1]_vars

\* The first client of round 1 is being invoked after the first client of
\* round 0, on a pool of three, failed with a transient error.
C19_Witness ==
    \E id \in Calls :
        LET c == call[id]
        IN /\ PoolSize = 3
           /\ c.pc = "operation"
           /\ c.rounds = 2 /\ c.sleeps = 1
           /\ IsDefined(c.lastError)
           /\ TransientShaped(Val(c.lastError))
           /\ Val(c.lastError).id = [round |-> 0, pos |-> 1]

\* An error that is neither a quota, an auth, a 429 nor a transient error.
FatalShaped(e) == ~QuotaShaped(e) /\ ~KeyLocalShaped(e) /\ ~TransientShaped(e)

\* C20: when an invocation fails with a transient error in the call's last
\* round, or in any round with an error that is neither a quota, an auth, a
\* 429 nor a transient error (one without a status among them), the call
\* ends in that step by throwing that very error, as the operation threw
\* it: no client is invoked, no round begun, no sleep taken and the cursor
\* not touched in the step, and nothing follows but the caller's taking
\* the outcome.
C20_FatalEndsCall ==
    [][\A id \in Calls :
        LET c == call[id]
            d == call'[id]
        IN /\ (/\ ThrewInStep(id)
               /\ \/ TransientShaped(Val(d.lastError)) /\ c.rounds >= c.maxRetries
                  \/ FatalShaped(Val(d.lastError))) =>
                /\ Threw(d)
                /\ Thrown(d) = d.lastError
                /\ \E e \in OperationErrors : Val(Thrown(d)) = [e EXCEPT !.id = Invocation(c)]
                /\ d.tried = c.tried /\ d.rounds = c.rounds /\ d.sleeps = c.sleeps
                /\ nextClientIndex' = nextClientIndex
           /\ (c.pc = "done" /\ d # c) => d = IdleCall /\ nextClientIndex' = nextClientIndex]_vars

\* A call has thrown the status-less error of the second client of its
\* second round.
C20_Witness ==
    \E id \in Calls :
        LET c == call[id]
        IN /\ Threw(c)
           /\ IsDefined(Thrown(c))
           /\ ~IsDefined(StatusOf(Val(Thrown(c))))
           /\ Val(Thrown(c)).id = [round |-> 1, pos |-> 2]
           /\ c.maxRetries = 3

\* C21 (every invocation fails with a key-local error): a call with
\* maxRetries = R >= 1 on a pool of N >= 1 clients tries the clients of each
\* round's order one after the other, sleeps only after the N-th client of
\* a round that is not the last, and so once per round but the last, and
\* ends only after the N-th client of round R - 1, having slept R - 1
\* times, by throwing the error of that last invocation.
C21_KeyLocalExhaustsPoolEachRound ==
    \A id \in Calls :
        LET c == call[id]
        IN (Running(c) /\ PoolSize > 0 /\ c.maxRetries >= 1) =>
            /\ c.rounds \in 1..c.maxRetries
            /\ c.tried = SubSeq(c.order, 1, Len(c.tried))
            /\ \A i, j \in 1..Len(c.order) : i # j => c.order[i] # c.order[j]
            /\ Len(c.order) = PoolSize
            /\ c.pc = "operation" => c.sleeps = c.rounds - 1
            /\ c.pc = "sleep" =>
                /\ c.tried = c.order
                /\ c.sleeps = c.rounds
                /\ c.rounds < c.maxRetries
            /\ c.pc = "done" =>
                /\ c.tried = c.order
                /\ c.rounds = c.maxRetries
                /\ c.sleeps = c.maxRetries - 1
                /\ Threw(c)
                /\ Thrown(c) = c.lastError
                /\ IsDefined(Thrown(c))
                /\ KeyLocalShaped(Val(Thrown(c)))
                /\ Val(Thrown(c)).id = [round |-> c.maxRetries - 1, pos |-> PoolSize]

\* A call with maxRetries = 3 on a pool of three has thrown after its
\* ninth invocation and two sleeps.
C21_Witness ==
    \E id \in Calls :
        /\ Threw(call[id])
        /\ PoolSize = 3
        /\ call[id].maxRetries = 3
        /\ call[id].rounds = 3
        /\ Len(call[id].tried) = 3
        /\ call[id].sleeps = 2

\* The rounds and the sleeps a call with the given maxRetries may take.
RoundsAllowed(c) == IF c.maxRetries > 0 THEN c.maxRetries ELSE 0
SleepsAllowed(c) == IF c.maxRetries > 1 THEN c.maxRetries - 1 ELSE 0

\* C22: when every awaited operation settles and every timer fires, a call
\* that has begun ends; and at every moment it has begun at most maxRetries
\* rounds of at most N invocations each (so at most N * maxRetries
\* invocations), has slept at most maxRetries - 1 times (not at all for
\* maxRetries <= 1), sleeps only when a further round is left, and has
\* ended with one sleep fewer than rounds: none after its last round.
C22_CallTerminatesWithinBounds ==
    /\ \A id \in Calls : (call[id].pc \in {"operation", "sleep"}) ~> (call[id].pc = "done")
    /\ [](\A id \in Calls :
            LET c == call[id]
            IN Running(c) =>
                /\ c.rounds <= RoundsAllowed(c)
                /\ Len(c.tried) <= PoolSize
                /\ c.rounds >= 1 =>
                    (c.rounds - 1) * PoolSize + Len(c.tried) <= PoolSize * c.maxRetries
                /\ c.rounds = 0 => c.tried = <<>>
                /\ c.sleeps <= SleepsAllowed(c)
                /\ c.pc = "sleep" => c.rounds < c.maxRetries /\ c.sleeps = c.rounds
                /\ (c.pc \in {"operation", "done"} /\ c.rounds >= 1) => c.sleeps = c.rounds - 1
                /\ c.rounds = 0 => c.sleeps = 0)

\* A call has ended after as many invocations and sleeps as three rounds
\* on three clients allow.
C22_Witness ==
    \E id \in Calls :
        /\ call[id].pc = "done"
        /\ PoolSize = 3
        /\ call[id].maxRetries = 3
        /\ call[id].rounds = 3
        /\ Len(call[id].tried) = 3
        /\ call[id].sleeps = 2
        /\ IsDefined(call[id].lastError)
        /\ TransientShaped(Val(call[id].lastError))

\* C23: the step in which a call's awaited invocation succeeds (it settles
\* without becoming the call's last error) ends the call with the result
\* of that very invocation, on the client tried last; the step invokes no
\* client, resolves no order, moves no cursor and takes no sleep, and the
\* call does nothing afterwards but hand over its outcome.
C23_FirstSuccessEndsCall ==
    [][\A id \in Calls :
        LET c == call[id]
            d == call'[id]
        IN /\ (c.pc = "operation" /\ d # c /\ ~ThrewInStep(id)) =>
                /\ Returned(d)
                /\ Result(d).id = Invocation(c)
                /\ Result(d).client = c.order[c.pos]
                /\ Result(d).client = c.tried[Len(c.tried)]
                /\ Result(d).value \in Results
                /\ d = [c EXCEPT !.pc = "done", !.outcome = d.outcome]
                /\ nextClientIndex' = nextClientIndex
                /\ starts' = starts
           /\ (Returned(c) /\ d # c) =>
                /\ d = IdleCall
                /\ nextClientIndex' = nextClientIndex
                /\ starts' = starts]_vars

\* One call has returned the result of the second client of its second
\* round while the other call is still sleeping.
C23_Witness ==
    \E id, other \in Calls :
        /\ Returned(call[id])
        /\ Result(call[id]).id = [round |-> 1, pos |-> 2]
        /\ call[id].sleeps = 1
        /\ call[other].pc = "sleep"

\* 2^a by repeated doubling.
RECURSIVE Doubled(_)
Doubled(a) == IF a = 0 THEN 1 ELSE 2 * Doubled(a - 1)

\* The least delay after round a: min(8000, 2^a * 1000).
DelayFloor(a) == IF Doubled(a) * 1000 < 8000 THEN Doubled(a) * 1000 ELSE 8000

\* C24: the delay after round a with jitter j in [0, 500) is
\* min(8000, 2^a * 1000 + j): at most 8000, at least min(8000, 2^a * 1000)
\* and less than 500 above it, that floor not falling from a round to the
\* next, and exactly 8000 for every a >= 3.
C24_BackoffDelayIsCappedExponential ==
    probe.fn = "backoff" =>
        LET a == probe.attempt
            j == probe.jitter
            raw == Doubled(a) * 1000 + j
        IN /\ probe.out = IF raw < 8000 THEN raw ELSE 8000
           /\ probe.out <= 8000
           /\ probe.out >= DelayFloor(a)
           /\ probe.out < DelayFloor(a) + 500
           /\ DelayFloor(a) <= DelayFloor(a + 1)
           /\ a >= 3 => probe.out = 8000
           /\ a < 3 => probe.out = Doubled(a) * 1000 + j

\* The delay after round 2 with the largest jitter, still under the cap.
C24_Witness ==
    /\ probe.fn = "backoff"
    /\ probe.attempt = 2
    /\ probe.jitter = 499
    /\ probe.out = 4499

\* C25 (one call at a time): every step that begins a round of an unpinned
\* call, the first round included, resolves the order anew: the round
\* starts at the cursor as it is, the cursor is left one further (mod N),
\* and the first client invoked is that start; the steps of the call that
\* begin no round leave cursor and start alone.  So each round starts one
\* past (mod N) the round before it, and after k rounds begun at c the
\* cursor is at c + k (mod N).
C25_EachRoundResolvesAnew ==
    [][\A id \in Calls :
        LET c == call[id]
            d == call'[id]
        IN (PoolSize > 0 /\ Running(d) /\ ~Pinned(d)) =>
            /\ d.rounds \in {c.rounds, c.rounds + 1}
            /\ d.rounds = c.rounds + 1 =>
                /\ d.start = nextClientIndex
                /\ nextClientIndex' = (nextClientIndex + 1) % PoolSize
                /\ d.cursorWrites = c.cursorWrites + 1
                /\ d.pc = "operation"
                /\ d.tried = <<d.start>>
                /\ \A i \in 1..PoolSize : d.order[i] = (d.start + i - 1) % PoolSize
                /\ c.rounds >= 1 =>
                    /\ d.start = (c.start + 1) % PoolSize
                    /\ nextClientIndex = (c.start + 1) % PoolSize
            /\ d.rounds = c.rounds =>
                /\ nextClientIndex' = nextClientIndex
                /\ d.start = c.start
                /\ d.order = c.order]_vars

\* An unpinned call on a pool of three is in its third round, begun at the
\* cursor value 1: the rounds started at 1, 2, 0 and the cursor is at 1.
C25_Witness ==
    \E id \in Calls :
        /\ PoolSize = 3
        /\ ~Pinned(call[id])
        /\ call[id].rounds = 3
        /\ call[id].start = 0
        /\ starts = <<1, 2, 0>>
        /\ nextClientIndex = 1

\* What a call can do next, whatever the other calls are at: begin when
\* its slot is free, have its invocation settle when it awaits one, wake
\* when it sleeps, hand over its outcome when it has ended.
CanProceed(id) ==
    /\ call[id].pc = "idle" =>
        ENABLED (\E p \in ConcurrentPrefs : Call(id, Undefined, p, JitterRange - 1))
    /\ call[id].pc = "operation" =>
        /\ ENABLED (\E v \in Results : OperationReturns(id, v))
        /\ ENABLED (\E e \in ConcurrentErrors : OperationThrows(id, e, JitterRange - 1))
    /\ call[id].pc = "sleep" => ENABLED TimerFires(id, JitterRange - 1)
    /\ call[id].pc = "done" => ENABLED Settle(id)

\* C26: while a call is in its backoff sleep every other call can take
\* its next step, be it to begin, to have an invocation settle, to wake or
\* to hand over its outcome; a step of one call leaves the sleeping call
\* as it is; and no step changes the pool.  (What the others can do is
\* evaluated in the state the sleeper wakes from: a sleeping call's timer
\* can fire in every state, so these are all the states a call sleeps in.)
C26_SleepBlocksOnlySleeper ==
    [][/\ clients' = clients
       /\ \A id, other \in Calls :
            (id # other /\ call[id].pc = "sleep") =>
                /\ call'[id] # call[id] => CanProceed(other)
                /\ call'[other] # call[other] => call'[id] = call[id]]_vars

\* One call is in its first backoff sleep, its only round begun at client
\* 0, and the other call, whose order was resolved after the sleeper's
\* (it starts at client 1), has returned.
C26_Witness ==
    \E id, other \in Calls :
        /\ PoolSize = 3
        /\ call[id].pc = "sleep" /\ call[id].rounds = 1 /\ call[id].sleeps = 1
        /\ ~Pinned(call[id]) /\ call[id].start = 0
        /\ ~Pinned(call[other]) /\ call[other].start = 1
        /\ Returned(call[other])
        /\ call[other].rounds = 1

\* C27: a call with maxRetries <= 0 on a pool that is not empty ends in
\* the step it begins in, having begun no round: no client invoked, no
\* sleep, no order resolved and the cursor where it was; it throws the
\* last error it never assigned, undefined, which has neither a status
\* nor a user message.
C27_NoRoundThrowsUndefined ==
    [][\A id \in Calls :
        LET c == call[id]
            d == call'[id]
        IN (c.pc = "idle" /\ d # c /\ PoolSize > 0 /\ d.maxRetries <= 0) =>
            /\ Threw(d)
            /\ Thrown(d) = Undefined
            /\ d.lastError = Undefined
            /\ d.rounds = 0 /\ d.tried = <<>> /\ d.order = <<>>
            /\ d.sleeps = 0
            /\ d.cursorWrites = 0
            /\ nextClientIndex' = nextClientIndex
            /\ starts' = starts]_vars

\* A call with maxRetries = -1 has ended on a pool of three whose cursor an
\* earlier call had moved to 2.
C27_Witness ==
    \E id \in Calls :
        /\ PoolSize = 3
        /\ call[id].maxRetries = 0 - 1
        /\ Threw(call[id])
        /\ Thrown(call[id]) = Undefined
        /\ nextClientIndex = 2

\* C28: the requests of one browser carry consecutive integers, each as
\* its decimal string, the item stored being the next one; on a pool of N
\* clients a request with index k starts at client k mod N, so the latest
\* N requests (fewer if fewer were sent) start at pairwise distinct
\* clients; and no request moved the cursor.
C28_BrowserRequestsRotateKeys ==
    LET sent == browser.sent
    IN /\ Len(sent) <= PoolSize
       /\ \A i \in 1..Len(sent) :
            /\ sent[i].header = Some(StringOf(sent[i].index))
            /\ ParseIntOf(sent[i].header) = Some(sent[i].index)
            /\ sent[i].start = ModIndex(sent[i].index, PoolSize)
            /\ ~sent[i].moved
       /\ \A i \in 1..(Len(sent) - 1) : sent[i + 1].index = sent[i].index + 1
       /\ \A i, j \in 1..Len(sent) : i # j => sent[i].start # sent[j].start
       /\ sent # <<>> => browser.storage = Some(StringOf(sent[Len(sent)].index + 1))
       /\ \A id \in Calls :
            (Running(call[id]) /\ Pinned(call[id]) /\ PoolSize > 0) =>
                /\ call[id].cursorWrites = 0
                /\ call[id].rounds >= 1 =>
                    call[id].tried[1] = ModIndex(call[id].preferredKeyIndex.n, PoolSize)

\* The browser's latest three requests, with the indices 1, 2 and 3,
\* started at the clients 1, 2 and 0 of a pool of three, while calls made
\* without a header have moved the cursor to 2.
C28_Witness ==
    /\ PoolSize = 3
    /\ Len(browser.sent) = 3
    /\ browser.sent[1].index = 1
    /\ browser.sent[3].start = 0
    /\ browser.storage = Some(<<"4">>)
    /\ nextClientIndex = 2

====
